---------------------------- MODULE Spec2Model ----------------------------
(***************************************************************************)
(* Model of Compression_Example.ipynb: the W^T P_l compression of the      *)
(* power spectrum and the routine that undoes it.                          *)
(*                                                                         *)
(* Arithmetic.  The notebook computes in float64.  The model computes in   *)
(* exact rationals <<n, d>> (d > 0, lowest terms); np.allclose is exact    *)
(* equality and np.linalg.matrix_rank is the exact rank.  The factor       *)
(* c = 2**-0.5 of ps2slices is irrational, so an entry of the packed       *)
(* vector is kept as [m |-> n, h |-> k], the number n * 2^(k/2).           *)
(* A matrix is a sequence of rows, indexed from 1 (the source from 0).     *)
(***************************************************************************)
EXTENDS Integers, Sequences, FiniteSets, TLC

VARIABLES
    pc,            \* where the running cell / call stands
    params,        \* [n_max, l_max, n_Z], the dict of dataset_to_params
    RK,            \* the random key (<<>> before gen_random_key)
    keyAtGen,      \* history: the value gen_random_key returned
    genCalls,      \* history: number of gen_random_key calls
    sampleNo,      \* i of "for i, struc in enumerate(dataset)"
    ps,            \* the packed power spectrum of the current structure
    full_slices,   \* ps2slices(ps, N*S, L)
    comp_slices,   \* [W_l^T P_l]
    recon_slices,  \* the uncompress_slice results so far
    l,             \* the l of the slice being processed
    ir,            \* the locals of get_IR while its loop runs
    arg,           \* the arguments of the function under call
    ret,           \* what the call returned
    err            \* the exception raised ("" when none)

vars == <<pc, params, RK, keyAtGen, genCalls, sampleNo, ps, full_slices,
          comp_slices, recon_slices, l, ir, arg, ret, err>>

---------------------------------------------------------------------------
(* Exact rationals.                                                        *)

Abs(x) == IF x < 0 THEN -x ELSE x

RECURSIVE GCD(_, _)
GCD(a, b) == IF b = 0 THEN a ELSE GCD(b, a % b)

Rat(n, d) ==
    LET s == IF d < 0 THEN -1 ELSE 1
        g == GCD(Abs(n), Abs(d))
    IN  <<(s * n) \div g, (s * d) \div g>>

Zero == <<0, 1>>
One == <<1, 1>>
RInt(k) == <<k, 1>>
RAdd(x, y) == Rat(x[1] * y[2] + y[1] * x[2], x[2] * y[2])
RNeg(x) == <<-x[1], x[2]>>
RSub(x, y) == RAdd(x, RNeg(y))
RMul(x, y) == Rat(x[1] * y[1], x[2] * y[2])
RDiv(x, y) == Rat(x[1] * y[2], x[2] * y[1])
RLt(x, y) == x[1] * y[2] < y[1] * x[2]
RSign(x) == IF x[1] > 0 THEN 1 ELSE IF x[1] < 0 THEN -1 ELSE 0

RECURSIVE RSum(_)
RSum(s) == IF s = <<>> THEN Zero ELSE RAdd(s[1], RSum(Tail(s)))

---------------------------------------------------------------------------
(* numpy on matrices of rationals.                                         *)

NRows(M) == Len(M)
NCols(M) == IF M = <<>> THEN 0 ELSE Len(M[1])

Min2(a, b) == IF a < b THEN a ELSE b

\* np.zeros((r, c))
np_zeros(r, c) == [i \in 1..r |-> [j \in 1..c |-> Zero]]

\* M.T
Transpose(M) == [j \in 1..NCols(M) |-> [i \in 1..NRows(M) |-> M[i][j]]]

\* np.dot(A, B)
np_dot(A, B) ==
    [i \in 1..NRows(A) |->
        [j \in 1..NCols(B) |->
            RSum([k \in 1..NCols(A) |-> RMul(A[i][k], B[k][j])])]]

\* M[:, :k]: a slice past the last column stops at the last column
FirstCols(M, k) == [i \in 1..NRows(M) |-> SubSeq(M[i], 1, Min2(k, NCols(M)))]

\* M[inds, :][:, inds], inds 0-based as in the source
Restrict(M, inds) ==
    [a \in 1..Len(inds) |-> [b \in 1..Len(inds) |-> M[inds[a] + 1][inds[b] + 1]]]

\* M.flatten()
RECURSIVE flatten(_)
flatten(M) == IF M = <<>> THEN <<>> ELSE M[1] \o flatten(Tail(M))

IsZeroRow(r) == \A j \in 1..Len(r) : r[j] = Zero

\* One step of Gaussian elimination on the first column.
DropCol(M) == [i \in 1..Len(M) |-> Tail(M[i])]
PivotRows(M) == {i \in 1..Len(M) : M[i][1] # Zero}
Eliminate(M, p) ==
    LET rest == SelectSeq([i \in 1..Len(M) |-> <<i, M[i]>>], LAMBDA e : e[1] # p)
    IN  [k \in 1..Len(rest) |->
            LET r == rest[k][2]
                f == RDiv(r[1], M[p][1])
            IN  [j \in 1..(Len(r) - 1) |-> RSub(r[j + 1], RMul(f, M[p][j + 1]))]]

\* np.linalg.matrix_rank(M)
RECURSIVE matrix_rank(_)
matrix_rank(M) ==
    IF M = <<>> \/ NCols(M) = 0 THEN 0
    ELSE IF PivotRows(M) = {} THEN matrix_rank(DropCol(M))
    ELSE LET p == CHOOSE i \in PivotRows(M) : \A k \in PivotRows(M) : i <= k
         IN  1 + matrix_rank(Eliminate(M, p))

\* The minor of M without row i and column j, and the determinant.
Minor(M, i, j) ==
    LET keep(s, k) == SubSeq(s, 1, k - 1) \o SubSeq(s, k + 1, Len(s))
        rows == keep(M, i)
    IN  [a \in 1..Len(rows) |-> keep(rows[a], j)]

RECURSIVE Det(_)
Det(M) ==
    IF M = <<>> THEN One
    ELSE RSum([j \in 1..Len(M) |->
            RMul(IF j % 2 = 1 THEN M[1][j] ELSE RNeg(M[1][j]), Det(Minor(M, 1, j)))])

Cofactor(M, i, j) ==
    IF (i + j) % 2 = 0 THEN Det(Minor(M, i, j)) ELSE RNeg(Det(Minor(M, i, j)))

\* The inverse of a non-singular matrix (adjugate over determinant).
Inverse(M) ==
    [i \in 1..Len(M) |-> [j \in 1..Len(M) |-> RDiv(Cofactor(M, j, i), Det(M))]]

IsSymmetric(M) == \A i, j \in 1..Len(M) : M[i][j] = M[j][i]

---------------------------------------------------------------------------
(* uncompress_slice and its nested get_IR.                                 *)

\* get_IR: the locals before the loop
IRInit == [T |-> <<>>, inds |-> <<>>, cur_rank |-> 0, i |-> 0]

\* The pass with "if rank >= cur_rank": a row that adds nothing is kept.
IRStepKeepingTies(st, A) ==
    LET row == A[st.i + 1]
        T1 == Append(st.T, row)
        rank == matrix_rank(T1)
    IN  IF rank >= st.cur_rank
        THEN [T |-> T1, inds |-> Append(st.inds, st.i), cur_rank |-> rank,
              i |-> st.i + 1]
        ELSE [T |-> SubSeq(T1, 1, Len(T1) - 1), inds |-> st.inds,
              cur_rank |-> st.cur_rank, i |-> st.i + 1]

\* The pass without "T = T[:-1]": a rejected row stays in T.
IRStepKeepingRow(st, A) ==
    LET row == A[st.i + 1]
        T1 == Append(st.T, row)
        rank == matrix_rank(T1)
    IN  IF rank > st.cur_rank
        THEN [T |-> T1, inds |-> Append(st.inds, st.i), cur_rank |-> rank,
              i |-> st.i + 1]
        ELSE [T |-> T1, inds |-> st.inds,
              cur_rank |-> st.cur_rank, i |-> st.i + 1]

\* get_IR: one pass of "for i, row in enumerate(A)"
IRStep(st, A) ==
    LET row == A[st.i + 1]
        T1 == Append(st.T, row)
        rank == matrix_rank(T1)
    IN  IF rank > st.cur_rank
        THEN [T |-> T1, inds |-> Append(st.inds, st.i), cur_rank |-> rank,
              i |-> st.i + 1]
        ELSE [T |-> SubSeq(T1, 1, Len(T1) - 1), inds |-> st.inds,
              cur_rank |-> st.cur_rank, i |-> st.i + 1]

RECURSIVE IRLoop(_, _)
IRLoop(st, A) == IF st.i >= Len(A) THEN st ELSE IRLoop(IRStep(st, A), A)

\* get_IR(A): returns T, inds
get_IR(A) == IRLoop(IRInit, A)

(***************************************************************************)
(* np.linalg.eigh is LAPACK and returns irrational numbers.  It is         *)
(* modelled by what the lines after it read from its result: the signs of  *)
(* the eigenvalues, ascending (vals), and the spectral identity            *)
(* C = U.T diag(vals) U with U orthogonal.  eigh reads the lower triangle  *)
(* of C only, so R reproduces C exactly when C is symmetric.               *)
(* The signs come from the characteristic polynomial                       *)
(* x^r - e1 x^(r-1) + e2 x^(r-2) - ..., e_k the sum of the principal       *)
(* k-minors: its roots are real, so the number of positive roots is the    *)
(* number of sign changes of its coefficients and the number of zero roots *)
(* is the number of vanishing trailing coefficients.                       *)
(***************************************************************************)
Subsets(n, k) == {s \in SUBSET (1..n) : Cardinality(s) = k}

SetToSeq(s) ==
    LET RECURSIVE order(_)
        order(t) ==
            IF t = {} THEN <<>>
            ELSE LET m == CHOOSE x \in t : \A y \in t : x <= y
                 IN  <<m>> \o order(t \ {m})
    IN  order(s)

PrincipalMinor(M, s) ==
    LET q == SetToSeq(s)
    IN  Det([a \in 1..Len(q) |-> [b \in 1..Len(q) |-> M[q[a]][q[b]]]])

RECURSIVE SumSet(_, _)
SumSet(M, ss) ==
    IF ss = {} THEN Zero
    ELSE LET s == CHOOSE x \in ss : TRUE
         IN  RAdd(PrincipalMinor(M, s), SumSet(M, ss \ {s}))

\* coefficient of x^(r-k) in the characteristic polynomial, k = 0..r
CharCoef(M, k) ==
    LET e == IF k = 0 THEN One ELSE SumSet(M, Subsets(Len(M), k))
    IN  IF k % 2 = 0 THEN e ELSE RNeg(e)

RECURSIVE SignChanges(_)
SignChanges(s) ==
    IF Len(s) < 2 THEN 0
    ELSE (IF s[1] # s[2] THEN 1 ELSE 0) + SignChanges(Tail(s))

LowerSym(C) ==
    [i \in 1..Len(C) |-> [j \in 1..Len(C) |-> IF j <= i THEN C[i][j] ELSE C[j][i]]]

\* vals of np.linalg.eigh(C), by sign: -1, 0, 1 stand for a negative, a
\* zero and a positive eigenvalue, in ascending order.
eigh_signs(C) ==
    LET M == LowerSym(C)
        r == Len(M)
        cs == [k \in 1..(r + 1) |-> RSign(CharCoef(M, k - 1))]
        nz == SelectSeq(cs, LAMBDA x : x # 0)
        pos == SignChanges(nz)
        nzero == Cardinality({k \in 1..(r + 1) : \A j \in k..(r + 1) : cs[j] = 0})
    IN  [k \in 1..r |->
            IF k <= r - pos - nzero THEN RInt(-1)
            ELSE IF k <= r - pos THEN Zero ELSE One]

(***************************************************************************)
(* Step "Solve for original Pl" (lines 218-223).  A root is                *)
(* [k, sq, e]: k = "fin" is the finite number sqrt(sq) * (1e-15)^e,        *)
(* k = "inf" is float infinity, k = "nan" is float nan.  For a float64 x,  *)
(* x**-0.5 is 1/sqrt(x) when x > 0, inf when x == 0 and nan when x < 0.    *)
(***************************************************************************)
Fin(sq, e) == [k |-> "fin", sq |-> sq, e |-> e]
Inf == [k |-> "inf", sq |-> Zero, e |-> 0]
NaN == [k |-> "nan", sq |-> Zero, e |-> 0]

\* x**-0.5
inv_sqrt(x) ==
    IF RSign(x) > 0 THEN Fin(RDiv(One, x), 0)
    ELSE IF RSign(x) = 0 THEN Inf ELSE NaN

\* x > 0 on a root: a comparison with nan is False
root_positive(x) == x.k = "inf" \/ (x.k = "fin" /\ RSign(x.sq) > 0)

\* a <= b on positive roots that were not clamped (e = 0)
root_le(a, b) ==
    \/ b.k = "inf"
    \/ (a.k = "fin" /\ b.k = "fin" /\ ~RLt(b.sq, a.sq))

\* min_pos * 1e-15
clamp_value(min_pos) ==
    IF min_pos.k = "inf" THEN Inf ELSE Fin(min_pos.sq, min_pos.e + 1)

\* lines 218-223: the diagonal of D, or the error min() raises on []
inverse_roots(vals) ==
    LET roots == [i \in 1..Len(vals) |-> inv_sqrt(vals[i])]
        positive == {i \in 1..Len(roots) : root_positive(roots[i])}
    IN  IF positive = {} THEN [err |-> "ValueError", D |-> <<>>]
        ELSE LET m == CHOOSE i \in positive :
                          \A j \in positive : root_le(roots[i], roots[j])
                 min_pos == roots[m]
             IN  [err |-> "",
                  D |-> [i \in 1..Len(roots) |->
                            IF root_positive(roots[i]) THEN roots[i]
                            ELSE clamp_value(min_pos)]]

Returned(P, n) == [err |-> "", P |-> P, eigh |-> n]
Raised(e, n) == [err |-> e, P |-> <<>>, eigh |-> n]

(***************************************************************************)
(* uncompress_slice after get_IR returned T, inds (lines 195-228).         *)
(* X.T X = T.T (U.T D^2 U) T, and U.T D^2 U is the inverse of C when every *)
(* eigenvalue is positive (D = diag(vals^-1/2)).  An infinite entry of D   *)
(* makes P non-finite, which np.allclose rejects.  With eigenvalues of     *)
(* both signs and none zero the result is not rational: "indefinite".      *)
(***************************************************************************)
\* The body with "NS = W.shape[1]"
uncompress_zero_by_columns(WtP, W) ==
    IF matrix_rank(WtP) = 0
    THEN Returned(np_zeros(NCols(W), NCols(W)), 0)
    ELSE Raised("AssertionError:201", 0)

\* lines 200-203: the body of "if len(inds) == 0"
uncompress_zero(WtP, W) ==
    IF matrix_rank(WtP) = 0
    THEN Returned(np_zeros(NRows(W), NRows(W)), 0)
    ELSE Raised("AssertionError:201", 0)

\* lines 206-228
uncompress_eigen(WtP, W, T, inds) ==
    LET C == Restrict(np_dot(WtP, W), inds)
        vals == eigh_signs(C)
        step5 == inverse_roots(vals)
    IN  IF ~IsSymmetric(C) THEN Raised("AssertionError:215", 1)
        ELSE IF step5.err # "" THEN Raised(step5.err, 1)
        ELSE IF \E i \in 1..Len(step5.D) : step5.D[i].k = "inf"
             THEN Raised("AssertionError:226", 1)
        ELSE IF \E i \in 1..Len(vals) : RSign(vals[i]) < 0
             THEN Raised("indefinite", 1)
        ELSE LET P == np_dot(Transpose(T), np_dot(Inverse(C), T))
             IN  IF np_dot(Transpose(W), P) = WtP
                 THEN Returned(P, 1)
                 ELSE Raised("AssertionError:226", 1)

uncompress_solve(WtP, ll, key, T, inds) ==
    LET W == FirstCols(key, 2 * ll + 1)
    IN  IF Len(inds) = 0
        THEN uncompress_zero(WtP, W)
        ELSE uncompress_eigen(WtP, W, T, inds)

\* uncompress_slice(WtP, l, RK)
uncompress_slice(WtP, ll, key) ==
    LET g == get_IR(WtP)
    IN  uncompress_solve(WtP, ll, key, g.T, g.inds)

---------------------------------------------------------------------------
(* The packed power spectrum.  An entry [m |-> n, h |-> k] is the number   *)
(* n * 2^(k/2); zero is kept as [m |-> 0, h |-> 0].                        *)

Sq(n, k) == IF n = 0 THEN [m |-> 0, h |-> 0] ELSE [m |-> n, h |-> k]

\* p left as read, the line "p = p * c" dropped
times_one(x) == x

\* p * c with c = 2**-0.5 (line 141)
times_c(x) == Sq(x.m, x.h - 1)

\* np.zeros((L+1, NS, NS)) (line 131)
zero_slices(NS, L) ==
    [ll \in 1..(L + 1) |-> [a \in 1..NS |-> [b \in 1..NS |-> Sq(0, 0)]]]

\* lines 136-143: "for l in range(0, L+1)" for one pair n1, n2.  st is
\* [i, l_slices, reads, err]; reads lists the indices of ps read so far,
\* and reading past the end of ps raises IndexError.
RECURSIVE ps2slices_l(_, _, _, _, _, _)
ps2slices_l(v, L, n1, n2, ll, st) ==
    IF ll > L \/ st.err # "" THEN st
    ELSE IF (L + 1) * st.i + ll >= Len(v)
         THEN [st EXCEPT !.err = "IndexError"]
    ELSE LET p == v[(L + 1) * st.i + ll + 1]
             upd == IF n1 = n2
                    THEN [st.l_slices EXCEPT ![ll + 1][n1 + 1][n2 + 1] = p]
                    ELSE [st.l_slices EXCEPT
                             ![ll + 1][n1 + 1][n2 + 1] = times_c(p),
                             ![ll + 1][n2 + 1][n1 + 1] = times_c(p)]
         IN  ps2slices_l(v, L, n1, n2, ll + 1,
                 [st EXCEPT !.l_slices = upd,
                            !.reads = Append(@, (L + 1) * st.i + ll)])

\* lines 134-144: the loops over n1 and n2, with "i += 1" after each pair
RECURSIVE ps2slices_pairs(_, _, _, _, _, _)
ps2slices_pairs(v, NS, L, n1, n2, st) ==
    IF n1 >= NS \/ st.err # "" THEN st
    ELSE IF n2 > n1 THEN ps2slices_pairs(v, NS, L, n1 + 1, 0, st)
    ELSE LET st1 == ps2slices_l(v, L, n1, n2, 0, st)
         IN  ps2slices_pairs(v, NS, L, n1, n2 + 1, [st1 EXCEPT !.i = st1.i + 1])

\* ps2slices(ps, NS, L): [err, l_slices, reads]
ps2slices(v, NS, L) ==
    LET st == ps2slices_pairs(v, NS, L, 0, 0,
                  [i |-> 0, l_slices |-> zero_slices(NS, L), reads |-> <<>>,
                   err |-> ""])
    IN  [err |-> st.err,
         l_slices |-> IF st.err = "" THEN st.l_slices ELSE <<>>,
         reads |-> st.reads]

\* round(0.5*N*S*(N*S+1)*(L+1)) (line 333)
ps_length(NS, L) == (NS * (NS + 1) * (L + 1)) \div 2

\* The pair n1 >= n2 with number i in the order of the loops.
RECURSIVE PairRow(_, _)
PairRow(i, n1) == IF i <= n1 THEN n1 ELSE PairRow(i - (n1 + 1), n1 + 1)
PairOf(i) ==
    LET n1 == PairRow(i, 0)
    IN  <<n1, i - (n1 * (n1 + 1)) \div 2>>

\* The inverse packing: the triangle n1 >= n2 flattened in the order of
\* the loops, L+1 values per pair, an off-diagonal entry divided by c.
over_c(x) == Sq(x.m, x.h + 1)
pack(slices, NS, L) ==
    [k \in 1..ps_length(NS, L) |->
        LET n == PairOf((k - 1) \div (L + 1))
            x == slices[((k - 1) % (L + 1)) + 1][n[1] + 1][n[2] + 1]
        IN  IF n[1] = n[2] THEN x ELSE over_c(x)]

\* The rational value of an entry with h = 0, and of a matrix of them.
Real(x) == RInt(x.m)
RealMatrix(M) == [a \in 1..Len(M) |-> [b \in 1..Len(M[a]) |-> Real(M[a][b])]]
SqMatrix(M) == [a \in 1..Len(M) |-> [b \in 1..Len(M[a]) |-> Sq(M[a][b][1], 0)]]

\* np.linalg.norm(v)**2 of a vector of entries: the sum of n^2 * 2^k
RECURSIVE TwoPow(_)
TwoPow(k) == IF k <= 0 THEN 1 ELSE 2 * TwoPow(k - 1)
norm_sq(v) ==
    RSum([k \in 1..Len(v) |->
        LET x == v[k]
        IN  Rat(x.m * x.m * TwoPow(x.h), TwoPow(-x.h))])

---------------------------------------------------------------------------
(* Inputs.                                                                 *)

\* Largest absolute value of an expansion coefficient of a structure.
MaxCoef == 1

\* Number of structures of the dataset.
MaxSamples == 2

Coefs == (-MaxCoef)..MaxCoef

\* Largest l_max tried, and the largest number of entries of a key tried.
MaxL == 1
MaxKeyCells == 4

NSof(p) == p.n_max * p.n_Z

KeyCols(p) == Min2(NSof(p), 2 * p.l_max + 1)

\* The parameter dicts tried (n_max, l_max, n_Z as dataset_to_params sets
\* them): those whose key has at most MaxKeyCells entries.
ParamSets ==
    {p \in [n_max : 1..MaxKeyCells, l_max : 0..MaxL, n_Z : 1..MaxKeyCells] :
        NSof(p) * KeyCols(p) <= MaxKeyCells}

\* Values np.random.sample may give after 0.1 + 0.8 * x: within [0.1, 0.9).
KeyEntries == {<<1, 4>>, <<1, 2>>}

\* gen_random_key(params): every matrix of its shape over KeyEntries
gen_random_key(p) ==
    LET ncols == Min2(NSof(p), 2 * p.l_max + 1)
        nrows == NSof(p)
    IN  [1..nrows -> [1..ncols -> KeyEntries]]

\* The l-slice of a structure with expansion coefficients A: P_l = A A^T,
\* symmetric positive semi-definite of rank <= min(N*S, 2l+1).
Gram(A) ==
    [i \in 1..Len(A) |-> [j \in 1..Len(A) |->
        RInt(LET prod == [k \in 1..Len(A[i]) |-> A[i][k] * A[j][k]]
                 RECURSIVE isum(_)
                 isum(q) == IF q = <<>> THEN 0 ELSE q[1] + isum(Tail(q))
             IN  isum(prod))]]

LSlices(ns, ll) ==
    {Gram(A) : A \in [1..ns -> [1..Min2(ns, 2 * ll + 1) -> Coefs]]}

\* line 339 for one l: np.dot(RK[:,:2*l+1].T, Pl)
compress_slice(key, ll, Pl) == np_dot(Transpose(FirstCols(key, 2 * ll + 1)), Pl)

\* The structures tried: every choice of slices P_0..P_L.  The descriptor
\* packs them (an off-diagonal entry times 2**0.5) and normalises the
\* vector; the model keeps the vector up to that positive factor, every
\* later step being homogeneous in ps.
RECURSIVE SliceLists(_, _)
SliceLists(ns, ll) ==
    IF ll < 0 THEN {<<>>}
    ELSE {Append(f, P) : f \in SliceLists(ns, ll - 1), P \in LSlices(ns, ll)}

DescriptorOutputs(p) ==
    {pack([ll \in 1..(p.l_max + 1) |-> SqMatrix(f[ll])], NSof(p), p.l_max) :
        f \in SliceLists(NSof(p), p.l_max)}

\* lines 117-121: short as a list of rationals
RECURSIVE compress_blocks(_, _, _, _)
compress_blocks(l_slices, key, ll, L) ==
    IF ll > L THEN <<>>
    ELSE flatten(compress_slice(key, ll, RealMatrix(l_slices[ll + 1])))
             \o compress_blocks(l_slices, key, ll + 1, L)

\* An entry num / sqrt(den2) of the returned vector (den2 = 0: nan).
Over(num, den2) == [num |-> num, den2 |-> den2]

\* compress_ps(ps, params, random_key, norm).  split_ps2 is defined nowhere
\* in the notebook: the call raises NameError unless the kernel still holds
\* that name (bound), and then it is the function ps2slices replaced.
compress_ps(v, p, key, norm, bound) ==
    LET N == p.n_max
        L == p.l_max
        S == p.n_Z
        sl == ps2slices(v, N * S, L)
    IN  IF ~bound THEN [err |-> "NameError", short |-> <<>>]
        ELSE IF sl.err # "" THEN [err |-> sl.err, short |-> <<>>]
        ELSE LET short == compress_blocks(sl.l_slices, key, 0, L)
                 n2 == RSum([k \in 1..Len(short) |-> RMul(short[k], short[k])])
             IN  [err |-> "",
                  short |-> [k \in 1..Len(short) |->
                                Over(short[k], IF norm THEN n2 ELSE One)]]

---------------------------------------------------------------------------
(* One slice through lines 339-351: compress, uncompress_slice with the    *)
(* loop of get_IR step by step, and the comparison with the original.      *)

NoRet == [err |-> "", P |-> <<>>, eigh |-> 0]

SliceInit ==
    /\ pc = "compress"
    /\ params \in ParamSets
    /\ RK \in gen_random_key(params)
    /\ keyAtGen = RK
    /\ genCalls = 1
    /\ sampleNo = 0
    /\ ps = <<>>
    /\ full_slices = <<>>
    /\ comp_slices = <<>>
    /\ recon_slices = <<>>
    /\ l \in 0..params.l_max
    /\ ir = IRInit
    /\ arg \in {[Pl |-> P, WtP |-> <<>>] : P \in LSlices(NSof(params), l)}
    /\ ret = NoRet
    /\ err = ""

SliceCompress ==
    /\ pc = "compress"
    /\ arg' = [arg EXCEPT !.WtP = compress_slice(RK, l, arg.Pl)]
    /\ ir' = IRInit
    /\ pc' = "get_IR"
    /\ UNCHANGED <<params, RK, keyAtGen, genCalls, sampleNo, ps, full_slices,
                   comp_slices, recon_slices, l, ret, err>>

SliceIRStep ==
    /\ pc = "get_IR"
    /\ ir.i < Len(arg.WtP)
    /\ ir' = IRStep(ir, arg.WtP)
    /\ UNCHANGED <<pc, params, RK, keyAtGen, genCalls, sampleNo, ps, full_slices,
                   comp_slices, recon_slices, l, arg, ret, err>>

SliceSolve ==
    /\ pc = "get_IR"
    /\ ir.i >= Len(arg.WtP)
    /\ ret' = uncompress_solve(arg.WtP, l, RK, ir.T, ir.inds)
    /\ err' = ret'.err
    /\ pc' = IF ret'.err = "" THEN "check" ELSE "raised"
    /\ UNCHANGED <<params, RK, keyAtGen, genCalls, sampleNo, ps, full_slices,
                   comp_slices, recon_slices, l, ir, arg>>

\* The comparison of lines 347-351 left out: every returned slice passes.
SliceCheckSkipped ==
    /\ pc = "check"
    /\ pc' = "success"
    /\ err' = ""
    /\ UNCHANGED <<params, RK, keyAtGen, genCalls, sampleNo, ps, full_slices,
                   comp_slices, recon_slices, l, ir, arg, ret>>

\* lines 347-351
SliceCheck ==
    /\ pc = "check"
    /\ IF ret.P = arg.Pl
       THEN pc' = "success" /\ err' = ""
       ELSE pc' = "failed" /\ err' = "Exception"
    /\ UNCHANGED <<params, RK, keyAtGen, genCalls, sampleNo, ps, full_slices,
                   comp_slices, recon_slices, l, ir, arg, ret>>

SliceNext == SliceCompress \/ SliceIRStep \/ SliceSolve \/ SliceCheck

SpecSlice == SliceInit /\ [][SliceNext]_vars

---------------------------------------------------------------------------
(* Claims on one slice (SpecSlice).                                        *)

\* uncompress_slice has returned or raised for the slice
Solved == pc \in {"check", "raised", "success", "failed"}

W_l == FirstCols(RK, 2 * l + 1)

RankKept == matrix_rank(arg.WtP) = matrix_rank(arg.Pl)

\* C1 as stated: whenever the first 2l+1 columns of the key have rank at
\* least rank(P) (and rank(P) <= 2l+1), uncompress_slice applied to W_l^T P
\* returns P.
C1_RoundTripByKeyRank ==
    (Solved /\ matrix_rank(arg.Pl) <= 2 * l + 1
            /\ matrix_rank(W_l) >= matrix_rank(arg.Pl))
        => (ret.err = "" /\ ret.P = arg.Pl)

\* C1 amended: whenever the projection keeps the rank of P,
\* rank(W_l^T P) = rank(P), uncompress_slice applied to W_l^T P returns
\* normally and returns P.
C1_RoundTrip ==
    (Solved /\ matrix_rank(arg.Pl) <= 2 * l + 1 /\ RankKept)
        => (ret.err = "" /\ ret.P = arg.Pl)

\* C1 witness: a rank-2 slice with non-zero off-diagonal entries came back
\* through the eigen route.
C1_Witness ==
    /\ pc = "success"
    /\ matrix_rank(arg.Pl) = 2
    /\ arg.Pl[1][2] # Zero
    /\ RankKept
    /\ ret.eigh = 1
    /\ ret.P = arg.Pl

\* C2 as stated: whenever the projection loses rank on the slice,
\* uncompress_slice ends in an error, and it never returns normally a matrix
\* different from the original.
C2_NeverSilent ==
    Solved => /\ ~RankKept => ret.err # ""
              /\ ret.err = "" => ret.P = arg.Pl

\* C2 amended: uncompress_slice does not fail on a slice whose projection
\* lost rank: it returns normally a matrix that differs from the original
\* and whose projection W_l^T P equals the compressed slice, so its own
\* check passes.  The loss is surfaced by the comparison with the original
\* that follows (lines 347-351): it raises exactly when the returned matrix
\* differs, so no such slice is reported a success.
C2_SurfacedByComparison ==
    /\ (Solved /\ ~RankKept) =>
          /\ ret.err = ""
          /\ ret.P # arg.Pl
          /\ compress_slice(RK, l, ret.P) = arg.WtP
    /\ pc = "success" => (RankKept /\ ret.P = arg.Pl)
    /\ pc = "failed" => (err = "Exception" /\ ret.P # arg.Pl)
    /\ (pc \in {"success", "failed"} /\ ~RankKept) => pc = "failed"

\* C2 witness: a slice of rank 2 compressed to rank 1 went through the
\* eigen route, was returned and was then rejected by the comparison.
C2_Witness ==
    /\ pc = "failed"
    /\ matrix_rank(arg.Pl) = 2
    /\ matrix_rank(arg.WtP) = 1
    /\ ret.eigh = 1
    /\ ret.err = ""

IsZeroMatrix(M) == \A i \in 1..Len(M) : \A j \in 1..Len(M[i]) : M[i][j] = Zero

\* C6: if P is the zero matrix, the compressed slice is the zero matrix and
\* uncompress_slice returns the (N*S)x(N*S) zero matrix without calling
\* eigh.
C6_ZeroPreserved ==
    IsZeroMatrix(arg.Pl) =>
        /\ pc # "compress" =>
              /\ IsZeroMatrix(arg.WtP)
              /\ Len(arg.WtP) = Min2(2 * l + 1, KeyCols(params))
              /\ \A i \in 1..Len(arg.WtP) : Len(arg.WtP[i]) = NSof(params)
        /\ Solved =>
              /\ ret.err = ""
              /\ ret.eigh = 0
              /\ ret.P = np_zeros(NSof(params), NSof(params))

\* C6 witness: a zero 2x2 slice at l = 1 was compressed and uncompressed.
C6_Witness ==
    /\ pc = "success"
    /\ IsZeroMatrix(arg.Pl)
    /\ NSof(params) = 2
    /\ l = 1
    /\ Len(arg.WtP) = 2
    /\ ret.eigh = 0

---------------------------------------------------------------------------
(* get_IR on any matrix uncompress_slice may be handed (SpecIR): the call  *)
(* is followed through the loop of get_IR up to its return.                *)

\* Largest number of entries of the matrix handed to get_IR.
MaxIRCells == 6

IRShapes == {s \in (1..MaxIRCells) \X (1..MaxIRCells) : s[1] * s[2] <= MaxIRCells}

IRInputs ==
    UNION {[1..s[1] -> [1..s[2] -> {RInt(c) : c \in -1..1}]] : s \in IRShapes}

IRSpecInit ==
    /\ pc = "get_IR"
    /\ params = [n_max |-> 0, l_max |-> 0, n_Z |-> 0]
    /\ RK = <<>>
    /\ keyAtGen = <<>>
    /\ genCalls = 0
    /\ sampleNo = 0
    /\ ps = <<>>
    /\ full_slices = <<>>
    /\ comp_slices = <<>>
    /\ recon_slices = <<>>
    /\ arg \in {[Pl |-> <<>>, WtP |-> A] : A \in IRInputs}
    /\ l = Len(arg.WtP) \div 2
    /\ ir = IRInit
    /\ ret = NoRet
    /\ err = ""

\* line 192: return T, inds
IRReturn ==
    /\ pc = "get_IR"
    /\ ir.i >= Len(arg.WtP)
    /\ pc' = "get_IR_returned"
    /\ ret' = [err |-> "", P |-> ir.T, eigh |-> 0]
    /\ UNCHANGED <<params, RK, keyAtGen, genCalls, sampleNo, ps, full_slices,
                   comp_slices, recon_slices, l, ir, arg, err>>

IRNext == SliceIRStep \/ IRReturn

SpecIR == IRSpecInit /\ [][IRNext]_vars

\* the rows of A at the 0-based indices of the sequence q
RowsAt(A, q) == [k \in 1..Len(q) |-> A[q[k] + 1]]

\* the members of the sequence q that are below j, in order
Below(q, j) == SelectSeq(q, LAMBDA x : x < j)

InSeq(q, x) == \E k \in 1..Len(q) : q[k] = x

---------------------------------------------------------------------------
(* Lines 218-223 on any ascending list of eigenvalues (SpecRoots).         *)

\* Eigenvalues tried: the multiples of 1/2 up to MaxEig/2 in absolute value,
\* at most MaxEigs of them.
MaxEig == 2
MaxEigs == 3

EigValues == {Rat(k, 2) : k \in (-MaxEig)..MaxEig}

\* eigh returns its eigenvalues in ascending order
Ascending(v) == \A a, b \in 1..Len(v) : a < b => ~RLt(v[b], v[a])

EigLists ==
    {v \in UNION {[1..n -> EigValues] : n \in 1..MaxEigs} : Ascending(v)}

RootsInit ==
    /\ pc = "roots"
    /\ params = [n_max |-> 0, l_max |-> 0, n_Z |-> 0]
    /\ RK = <<>>
    /\ keyAtGen = <<>>
    /\ genCalls = 0
    /\ sampleNo = 0
    /\ ps = <<>>
    /\ full_slices = <<>>
    /\ comp_slices = <<>>
    /\ recon_slices = <<>>
    /\ l = 0
    /\ ir = IRInit
    /\ arg \in {[vals |-> v] : v \in EigLists}
    /\ ret = [err |-> "", D |-> <<>>]
    /\ err = ""

\* lines 218-223
RootsStep ==
    /\ pc = "roots"
    /\ ret' = inverse_roots(arg.vals)
    /\ err' = ret'.err
    /\ pc' = IF ret'.err = "" THEN "roots_done" ELSE "raised"
    /\ UNCHANGED <<params, RK, keyAtGen, genCalls, sampleNo, ps, full_slices,
                   comp_slices, recon_slices, l, ir, arg>>

SpecRoots == RootsInit /\ [][RootsStep]_vars

\* the largest positive eigenvalue: its inverse root is the smallest
MaxPositive(v) ==
    CHOOSE x \in {v[i] : i \in 1..Len(v)} :
        /\ RSign(x) > 0
        /\ \A i \in 1..Len(v) : ~RLt(x, v[i])

\* C9: the step never fails; the entry of D is lambda^-1/2 for a positive
\* eigenvalue and (minimum positive root) * 1e-15 for a negative or zero
\* one, so every entry of D is finite and strictly positive.
C9_ClampedRoots ==
    /\ pc # "raised"
    /\ pc = "roots_done" =>
          \A i \in 1..Len(arg.vals) :
              /\ ret.D[i].k = "fin"
              /\ RSign(ret.D[i].sq) > 0
              /\ RSign(arg.vals[i]) > 0 =>
                    ret.D[i] = Fin(RDiv(One, arg.vals[i]), 0)
              /\ RSign(arg.vals[i]) <= 0 =>
                    ret.D[i] = Fin(RDiv(One, MaxPositive(arg.vals)), 1)

---------------------------------------------------------------------------
(* The session: the cell of lines 321-351.                                 *)

\* The parameter dicts of the sessions tried.
SessionParams == {p \in ParamSets : NSof(p) <= 2 /\ p.l_max <= 1}

NoCall == [Pl |-> <<>>, WtP |-> <<>>, fn |-> "", key |-> <<>>]

Init ==
    /\ pc = "start"
    /\ params \in SessionParams
    /\ RK = <<>>
    /\ keyAtGen = <<>>
    /\ genCalls = 0
    /\ sampleNo = 0
    /\ ps = <<>>
    /\ full_slices = <<>>
    /\ comp_slices = <<>>
    /\ recon_slices = <<>>
    /\ l = 0
    /\ ir = IRInit
    /\ arg = NoCall
    /\ ret = NoRet
    /\ err = ""

\* line 326: RK = gen_random_key(params)
GenKey ==
    /\ pc = "start"
    /\ RK' \in gen_random_key(params)
    /\ keyAtGen' = RK'
    /\ genCalls' = genCalls + 1
    /\ pc' = "loop"
    /\ UNCHANGED <<params, sampleNo, ps, full_slices, comp_slices,
                   recon_slices, l, ir, arg, ret, err>>

\* lines 328-332: the next structure and its power spectrum.  The names of
\* the previous pass are rebound before they are read again; the model
\* clears them here.
NextStructure ==
    /\ pc = "loop"
    /\ sampleNo < MaxSamples
    /\ ps' \in DescriptorOutputs(params)
    /\ full_slices' = <<>>
    /\ comp_slices' = <<>>
    /\ recon_slices' = <<>>
    /\ l' = 0
    /\ arg' = NoCall
    /\ ret' = NoRet
    /\ pc' = "decompose"
    /\ UNCHANGED <<params, RK, keyAtGen, genCalls, sampleNo, ir, err>>

\* the dataset is exhausted
EndOfDataset ==
    /\ pc = "loop"
    /\ sampleNo >= MaxSamples
    /\ pc' = "done"
    /\ UNCHANGED <<params, RK, keyAtGen, genCalls, sampleNo, ps, full_slices,
                   comp_slices, recon_slices, l, ir, arg, ret, err>>

\* lines 333-336
Decompose ==
    /\ pc = "decompose"
    /\ LET NS == NSof(params)
           L == params.l_max
           sl == ps2slices(ps, NS, L)
           ps2 == flatten(flatten(sl.l_slices))
       IN  IF Len(ps) # ps_length(NS, L)
           THEN pc' = "raised" /\ err' = "AssertionError:333"
                /\ UNCHANGED full_slices
           ELSE IF sl.err # ""
           THEN pc' = "raised" /\ err' = sl.err /\ UNCHANGED full_slices
           ELSE IF norm_sq(ps) = Zero \/ norm_sq(ps2) # norm_sq(ps)
           THEN pc' = "raised" /\ err' = "AssertionError:336"
                /\ full_slices' = sl.l_slices
           ELSE pc' = "compress" /\ err' = "" /\ full_slices' = sl.l_slices
    /\ UNCHANGED <<params, RK, keyAtGen, genCalls, sampleNo, ps, comp_slices,
                   recon_slices, l, ir, arg, ret>>

\* sum([len(x.flatten()) for x in comp_slices])
RECURSIVE total_len(_)
total_len(q) == IF q = <<>> THEN 0 ELSE Len(flatten(q[1])) + total_len(Tail(q))

\* lines 339-341
Compress ==
    /\ pc = "compress"
    /\ LET N == params.n_max
           S == params.n_Z
           L == params.l_max
           cs == [k \in 1..Len(full_slices) |->
                     compress_slice(RK, k - 1, RealMatrix(full_slices[k]))]
           n_short == total_len(cs)
       IN  /\ comp_slices' = cs
           /\ IF n_short = N * S * (L + 1) * (L + 1)
              THEN pc' = "uncompress" /\ err' = ""
              ELSE pc' = "raised" /\ err' = "AssertionError:341"
    /\ l' = 0
    /\ recon_slices' = <<>>
    /\ arg' = [Pl |-> <<>>, WtP |-> <<>>, fn |-> "compress", key |-> RK]
    /\ UNCHANGED <<params, RK, keyAtGen, genCalls, sampleNo, ps, full_slices,
                   ir, ret>>

\* Uncompress, were uncompress_slice to halve its key argument in place
\* (W *= 0.5 on the array the session holds).
UncompressHalvingKey ==
    /\ pc = "uncompress"
    /\ l < Len(comp_slices)
    /\ ret' = uncompress_slice(comp_slices[l + 1], l, RK)
    /\ RK' = [i \in 1..Len(RK) |->
                 [j \in 1..Len(RK[i]) |-> RMul(RK[i][j], Rat(1, 2))]]
    /\ arg' = [Pl |-> <<>>, WtP |-> comp_slices[l + 1],
               fn |-> "uncompress_slice", key |-> RK]
    /\ IF ret'.err = ""
       THEN /\ recon_slices' = Append(recon_slices, ret'.P)
            /\ l' = l + 1
            /\ pc' = "uncompress"
            /\ err' = ""
       ELSE /\ pc' = "raised"
            /\ err' = ret'.err
            /\ UNCHANGED <<recon_slices, l>>
    /\ UNCHANGED <<params, keyAtGen, genCalls, sampleNo, ps, full_slices,
                   comp_slices, ir>>

\* line 344: uncompress_slice(WtP, l, RK) for the next l
Uncompress ==
    /\ pc = "uncompress"
    /\ l < Len(comp_slices)
    /\ ret' = uncompress_slice(comp_slices[l + 1], l, RK)
    /\ arg' = [Pl |-> <<>>, WtP |-> comp_slices[l + 1],
               fn |-> "uncompress_slice", key |-> RK]
    /\ IF ret'.err = ""
       THEN /\ recon_slices' = Append(recon_slices, ret'.P)
            /\ l' = l + 1
            /\ pc' = "uncompress"
            /\ err' = ""
       ELSE /\ pc' = "raised"
            /\ err' = ret'.err
            /\ UNCHANGED <<recon_slices, l>>
    /\ UNCHANGED <<params, RK, keyAtGen, genCalls, sampleNo, ps, full_slices,
                   comp_slices, ir>>

\* lines 347-351
Check ==
    /\ pc = "uncompress"
    /\ l >= Len(comp_slices)
    /\ IF recon_slices = [k \in 1..Len(full_slices) |-> RealMatrix(full_slices[k])]
       THEN pc' = "loop" /\ sampleNo' = sampleNo + 1 /\ err' = ""
       ELSE pc' = "raised" /\ err' = "Exception" /\ UNCHANGED sampleNo
    /\ UNCHANGED <<params, RK, keyAtGen, genCalls, ps, full_slices,
                   comp_slices, recon_slices, l, ir, arg, ret>>

Next ==
    \/ GenKey
    \/ NextStructure
    \/ EndOfDataset
    \/ Decompose
    \/ Compress
    \/ Uncompress
    \/ Check

Spec == Init /\ [][Next]_vars

---------------------------------------------------------------------------
(* Claims on the session (Spec).                                           *)

\* the compressed slices of the current structure have been computed
Compressed == arg.fn # "" /\ comp_slices # <<>>

\* C3 as stated: with the key of gen_random_key, the compressed slices for
\* l = 0..L hold N*S*(L+1)^2 scalars in total, the slice for l having shape
\* (2l+1) x (N*S).
C3_CompressedLength ==
    Compressed =>
        /\ total_len(comp_slices) =
               params.n_max * params.n_Z * (params.l_max + 1) * (params.l_max + 1)
        /\ \A k \in 1..Len(comp_slices) :
               /\ Len(comp_slices[k]) = 2 * (k - 1) + 1
               /\ \A i \in 1..Len(comp_slices[k]) :
                      Len(comp_slices[k][i]) = NSof(params)

\* C8: the key is generated once in the session; from then on the stored
\* key equals, entry for entry, the matrix gen_random_key returned, no step
\* changes it or generates another, and every compression and every call
\* of uncompress_slice is handed that matrix.
C8_KeyImmutable ==
    /\ [](pc = "start" => genCalls = 0)
    /\ [](pc # "start" => (genCalls = 1 /\ RK = keyAtGen))
    /\ [](arg.fn # "" => arg.key = keyAtGen)
    /\ [][pc # "start" => (RK' = RK /\ genCalls' = genCalls)]_vars

\* C8 witness: every structure of the dataset has been compressed and
\* uncompressed, the last call being handed the key as generated.
C8_Witness ==
    /\ pc = "done"
    /\ sampleNo = MaxSamples
    /\ MaxSamples >= 2
    /\ genCalls = 1
    /\ arg.fn = "uncompress_slice"
    /\ arg.key = keyAtGen
    /\ RK = keyAtGen
    /\ Len(RK) = 2

---------------------------------------------------------------------------
(* ps2slices called on a vector of any length near the expected one        *)
(* (SpecPs).                                                               *)

MaxPsLen == 7

PsParams == {p \in ParamSets : ps_length(NSof(p), p.l_max) + 1 <= MaxPsLen}

\* The vectors of length n in the form the descriptor gives them: an entry
\* of an off-diagonal pair carries the factor 2**0.5.
PsVectors(L, n) ==
    {[k \in 1..n |->
         LET pr == PairOf((k - 1) \div (L + 1))
         IN  Sq(f[k], IF pr[1] = pr[2] THEN 0 ELSE 1)] : f \in [1..n -> Coefs]}

PsInit ==
    /\ pc = "call"
    /\ params \in PsParams
    /\ \E n \in (ps_length(NSof(params), params.l_max) - 1)
                    ..(ps_length(NSof(params), params.l_max) + 1) :
           ps \in PsVectors(params.l_max, n)
    /\ RK = <<>>
    /\ keyAtGen = <<>>
    /\ genCalls = 0
    /\ sampleNo = 0
    /\ full_slices = <<>>
    /\ comp_slices = <<>>
    /\ recon_slices = <<>>
    /\ l = 0
    /\ ir = IRInit
    /\ arg = [fn |-> "", reads |-> <<>>]
    /\ ret = NoRet
    /\ err = ""

\* l_slices = ps2slices(ps, N*S, L)
CallPs2slices ==
    /\ pc = "call"
    /\ LET sl == ps2slices(ps, NSof(params), params.l_max)
       IN  /\ full_slices' = sl.l_slices
           /\ err' = sl.err
           /\ arg' = [fn |-> "ps2slices", reads |-> sl.reads]
           /\ pc' = IF sl.err = "" THEN "returned" ELSE "raised"
    /\ UNCHANGED <<params, RK, keyAtGen, genCalls, sampleNo, ps, comp_slices,
                   recon_slices, l, ir, ret>>

PsNext == CallPs2slices

SpecPs == PsInit /\ [][PsNext]_vars

ExpectedLen == ps_length(NSof(params), params.l_max)

\* C4 as stated: ps2slices produces slices only for a vector of length
\* NS*(NS+1)*(L+1)/2; for any other length, shorter or longer, it raises
\* and produces no slices.
C4_ShapeCheck ==
    pc # "call" =>
        /\ Len(ps) = ExpectedLen => (pc = "returned" /\ full_slices # <<>>)
        /\ Len(ps) # ExpectedLen =>
               (pc = "raised" /\ err # "" /\ full_slices = <<>>)

\* C5: for a vector of length NS*(NS+1)*(L+1)/2, ps2slices returns, the
\* inverse packing of its result is the vector itself, the indices it read
\* are 0, 1, ..., len-1 each once, and the value at (L+1)*i + l is at
\* [l][n1][n2] and [l][n2][n1] of the i-th pair n1 >= n2 (times 2**-0.5
\* when n1 # n2, as read when n1 = n2).
C5_PackingInverse ==
    (pc # "call" /\ Len(ps) = ExpectedLen) =>
        LET NS == NSof(params)
            L == params.l_max
        IN  /\ pc = "returned"
            /\ pack(full_slices, NS, L) = ps
            /\ arg.reads = [k \in 1..ExpectedLen |-> k - 1]
            /\ \A i \in 0..((NS * (NS + 1)) \div 2 - 1) : \A ll \in 0..L :
                   LET n == PairOf(i)
                       x == ps[(L + 1) * i + ll + 1]
                       y == IF n[1] = n[2] THEN x ELSE Sq(x.m, x.h - 1)
                   IN  /\ full_slices[ll + 1][n[1] + 1][n[2] + 1] = y
                       /\ full_slices[ll + 1][n[2] + 1][n[1] + 1] = y

\* C5 witness: a vector for NS = 2, L = 1 whose off-diagonal pair is
\* non-zero for both l was split and packs back to itself.
C5_Witness ==
    /\ pc = "returned"
    /\ NSof(params) = 2
    /\ params.l_max = 1
    /\ Len(ps) = 6
    /\ ps[3].m # 0
    /\ ps[4].m # 0
    /\ full_slices[1][1][2] = Sq(ps[3].m, 0)
    /\ full_slices[2][2][1] = Sq(ps[4].m, 0)
    /\ pack(full_slices, 2, 1) = ps

---------------------------------------------------------------------------
(* compress_ps called with the key of the session (SpecCompress).          *)

CompressInit ==
    /\ pc = "call"
    /\ params \in SessionParams
    /\ ps \in DescriptorOutputs(params)
    /\ RK \in gen_random_key(params)
    /\ keyAtGen = RK
    /\ genCalls = 1
    /\ sampleNo = 0
    /\ full_slices = <<>>
    /\ comp_slices = <<>>
    /\ recon_slices = <<>>
    /\ l = 0
    /\ ir = IRInit
    /\ \E norm \in BOOLEAN, bound \in BOOLEAN :
           arg = [fn |-> "compress_ps", norm |-> norm, split_ps2 |-> bound]
    /\ ret = [err |-> "", short |-> <<>>]
    /\ err = ""

\* short = compress_ps(ps, params, RK, norm)
CallCompressPs ==
    /\ pc = "call"
    /\ ret' = compress_ps(ps, params, RK, arg.norm, arg.split_ps2)
    /\ err' = ret'.err
    /\ pc' = IF ret'.err = "" THEN "returned" ELSE "raised"
    /\ UNCHANGED <<params, RK, keyAtGen, genCalls, sampleNo, ps, full_slices,
                   comp_slices, recon_slices, l, ir, arg>>

CompressNext == CallCompressPs

SpecCompress == CompressInit /\ [][CompressNext]_vars

\* C7 as stated: for every input, compress_ps returns, and the l-th block
\* of what it returns is W_l^T P_l exactly, never rescaled.
C7_NoNormalization ==
    pc # "call" =>
        /\ pc = "returned"
        /\ LET sl == ps2slices(ps, NSof(params), params.l_max)
               exact == compress_blocks(sl.l_slices, RK, 0, params.l_max)
           IN  ret.short = [k \in 1..Len(exact) |-> Over(exact[k], One)]

===========================================================================
